---- MODULE Spec2Model ----
(***************************************************************************)
(* Verification model of three pieces of the GRR code base:                *)
(*   - artifact_utils.InterpolateKbAttributes / InterpolateListKbAttributes *)
(*     (knowledge-base interpolation of %%placeholders%%),                  *)
(*   - artifact_utils.ExpandWindowsEnvironmentVariables,                    *)
(*   - mem_events.InMemoryDBEventMixin (lock-guarded audit event log).      *)
(* Each piece has its own specification: Spec and SpecList for the         *)
(* interpolation, SpecEnv for the environment expansion, SpecEvents for    *)
(* the audit log.                                                          *)
(***************************************************************************)
EXTENDS Integers, Sequences, FiniteSets, TLC

(***************************************************************************)
(* Bounds of the model.                                                    *)
(***************************************************************************)
\* Longest `users` group of a knowledge base under Spec.
MaxUsers == 2
\* Longest input_list of InterpolateListKbAttributes under SpecList.
MaxList == 2
\* Longest `users` group of a knowledge base under SpecList.
MaxListUsers == 1
\* Longest `ifaces` group of a knowledge base under Spec.
MaxIfaces == 1
\* Longest data_string of ExpandWindowsEnvironmentVariables under SpecEnv.
MaxStrLen == 7
\* Number of threads that call the audit log under SpecEvents.
NumThreads == 2
\* Number of calls made on the audit log under SpecEvents.
MaxCalls == 4
\* Largest value of the clock under SpecEvents.
MaxTime == 1

VARIABLES
  \* ---- InterpolateListKbAttributes / InterpolateKbAttributes ----
  input_list,          \* argument: sequence of patterns
  knowledge_base,      \* argument: the knowledge base
  ignore_errors,       \* argument: BOOLEAN
  pc,                  \* position of the call
  idx,                 \* index of `element` in the for loop of the list call
  interpolated_list,   \* the list being extended
  returned,            \* the value returned by the list call
  pattern,             \* pattern of the running generator
  todoVars,            \* interpolator.Vars() not yet visited
  todoScopes,          \* interpolator.Scopes() not yet visited
  missing_attr_names,  \* the set of line 77
  var_bindings,        \* interpolator state written by BindVar
  scope_bindings,      \* interpolator state written by BindScope
  pending,             \* results of interpolator.Interpolate() not yet yielded
  yielded,             \* strings yielded by the running generator
  errors,              \* KnowledgeBaseInterpolationError raised so far
  logged,              \* messages passed to logging.error
  runs,                \* history: one record per finished generator
  \* ---- ExpandWindowsEnvironmentVariables ----
  data_string,         \* argument: sequence of characters
  environ,             \* the environ_* attributes of the knowledge base
  epc,                 \* position of the call
  components,          \* the list of line 205
  offset,              \* line 206 (position of the next character, from 1)
  expanded,            \* the returned string
  \* ---- InMemoryDBEventMixin ----
  events,              \* self.events
  lock,                \* self.lock: 0 when free, else the thread holding it
  tpc,                 \* position of each thread
  event,               \* each thread's local `event` in WriteAuditEvent
  snapshot,            \* what each thread's ReadAllAuditEvents returns
  logSeen,             \* history: the log when the thread's read ran
  calls,               \* number of calls made so far
  writesDone           \* number of WriteAuditEvent calls that returned

ivars == <<input_list, knowledge_base, ignore_errors, pc, idx,
           interpolated_list, returned, pattern, todoVars, todoScopes,
           missing_attr_names, var_bindings, scope_bindings, pending, yielded,
           errors, logged, runs>>
wvars == <<data_string, environ, epc, components, offset, expanded>>
evars == <<events, lock, tpc, event, snapshot, logSeen, calls, writesDone>>

(***************************************************************************)
(* Values.  Python's None is a value of its own; "" is the empty string.   *)
(***************************************************************************)
None == "<None>"

\* Python truthiness of an attribute value (lines 85, 108).
Truthy(value) == value # None /\ value # ""

\* str.lower() on the identifiers the patterns of the model use.
Lower(id) ==
  CASE id = "OS" -> "os"
    [] id = "Os" -> "os"
    [] id = "FQDN" -> "fqdn"
    [] id = "USERS" -> "users"
    [] id = "Users" -> "users"
    [] id = "HOME" -> "home"
    [] id = "Home" -> "home"
    [] id = "NAME" -> "name"
    [] OTHER -> id

\* getattr(obj, name, None) on a knowledge base or one of its structs.
GetAttr(obj, name) == IF name \in DOMAIN obj THEN obj[name] ELSE None

\* getattr(knowledge_base, scope_name, None) for a repeated group: the list,
\* or None when the knowledge base has no such attribute.
GetGroup(kb, name) ==
  IF name \in DOMAIN kb.groups
    THEN [isNone |-> FALSE, items |-> kb.groups[name]]
    ELSE [isNone |-> TRUE, items |-> <<>>]

\* Python truthiness of a group value (line 95): None and [] are falsy.
TruthyGroup(g) == ~g.isNone /\ Len(g.items) > 0

EmptyMap == [x \in {} |-> None]

(***************************************************************************)
(* Patterns.  A pattern is the sequence of its literal chunks and markers: *)
(* %%var%% is a scalar marker, %%scope.var%% a scope marker.               *)
(***************************************************************************)
Lit(t) == [kind |-> "lit", text |-> t, scope |-> "", var |-> ""]
Var(v) == [kind |-> "var", text |-> "", scope |-> "", var |-> v]
SVar(s, v) == [kind |-> "scope", text |-> "", scope |-> s, var |-> v]

Patterns ==
  { <<Lit("literal text")>>,
    <<Lit("OS: "), Var("os")>>,
    <<Var("OS")>>,
    <<Var("OS"), Lit("-"), Var("os")>>,
    <<Var("os"), Lit("@"), Var("fqdn")>>,
    <<SVar("users", "home")>>,
    <<SVar("Users", "HOME")>>,
    <<SVar("users", "name"), Lit(":"), SVar("users", "home")>>,
    <<Var("fqdn"), Lit("/"), SVar("users", "home")>>,
    <<Var("os"), SVar("nosuch", "name")>>,
    <<SVar("users", "name"), Lit("@"), SVar("ifaces", "addr")>>,
    <<SVar("nosuch", "name"), SVar("ifaces", "addr"), Var("fqdn")>> }

ListPatterns ==
  { <<Lit("literal text")>>,
    <<Var("OS")>>,
    <<Var("OS"), Lit("-"), Var("os")>>,
    <<Var("os"), Lit("-"), Var("os")>>,
    <<Lit("OS: "), Var("os")>>,
    <<SVar("users", "home")>>,
    <<SVar("Users", "HOME")>> }

(***************************************************************************)
(* Knowledge bases.                                                        *)
(***************************************************************************)
UserStructs ==
  { [name |-> "alice", home |-> "/home/alice"],
    [name |-> "bob", home |-> "/home/bob"],
    [name |-> "carol", home |-> None],
    [name |-> "", home |-> "/home/alice"] }

IfaceStructs == { [addr |-> "10.0.0.1"] }

SeqsUpTo(S, n) == UNION { [1..k -> S] : k \in 0..n }

KnowledgeBases ==
  { [scalars |-> [os |-> o, fqdn |-> f],
     groups |-> [users |-> u, ifaces |-> i]] :
      o \in {None, "", "Windows"}, f \in {None, "host"},
      u \in SeqsUpTo(UserStructs, MaxUsers),
      i \in SeqsUpTo(IfaceStructs, MaxIfaces) }

ListKnowledgeBases ==
  { [scalars |-> [os |-> o, fqdn |-> None],
     groups |-> [users |-> u, ifaces |-> <<>>]] :
      o \in {None, "", "Windows"},
      u \in SeqsUpTo(UserStructs, MaxListUsers) }

(***************************************************************************)
(* interpolation.Interpolator: the placeholder scanner, the binding store  *)
(* and the expander.                                                       *)
(***************************************************************************)
\* Interpolator.Vars(): the scalar names of the pattern, lower-cased.
ScanVars(p) ==
  { Lower(p[i].var) : i \in { j \in DOMAIN p : p[j].kind = "var" } }

\* Variant of ScanScopes: the scope names as written.
ScanScopesAsWritten(p) ==
  { p[i].scope : i \in { j \in DOMAIN p : p[j].kind = "scope" } }

\* Interpolator.Scopes(): the scope names of the pattern, lower-cased.
ScanScopes(p) ==
  { Lower(p[i].scope) : i \in { j \in DOMAIN p : p[j].kind = "scope" } }

\* Interpolator.ScopeVars(scope_id): the fields requested from one scope.
ScanScopeVars(p, scope_id) ==
  { Lower(p[i].var) :
      i \in { j \in DOMAIN p :
                p[j].kind = "scope" /\ Lower(p[j].scope) = scope_id } }

\* Interpolator.BindVar: a scalar bound once keeps its value.
BindVar(bindings, var_id, value) ==
  IF var_id \in DOMAIN bindings THEN bindings ELSE bindings @@ (var_id :> value)

\* Interpolator.BindScope: one more accepted instance of the scope.
BindScope(sbindings, scope_id, bindings) ==
  IF scope_id \in DOMAIN sbindings
    THEN [sbindings EXCEPT ![scope_id] = Append(@, bindings)]
    ELSE sbindings

\* Alphabetical rank of the top-level names the patterns use.
Rank ==
  "fqdn" :> 1 @@ "ifaces" :> 2 @@ "nosuch" :> 3 @@ "os" :> 4 @@ "users" :> 5

\* All orders in which the elements of a set can be iterated.
Orderings(S) ==
  { s \in [1..Cardinality(S) -> S] :
      \A i, j \in 1..Cardinality(S) : i # j => s[i] # s[j] }

\* The scopes of a pattern in the order the expander nests them.
ScopeOrder(S) ==
  CHOOSE s \in Orderings(S) :
    \A i, j \in 1..Cardinality(S) : i < j => Rank[s[i]] < Rank[s[j]]

\* The text of a marker as written in the pattern.
MarkerText(tok) ==
  IF tok.kind = "var" THEN "%%" \o tok.var \o "%%"
  ELSE "%%" \o tok.scope \o "." \o tok.var \o "%%"

\* One output string: every marker of the pattern replaced by its binding
\* (a marker that has no binding stays as written).
RECURSIVE Substitute(_, _, _)
Substitute(p, vconfig, sconfig) ==
  IF p = <<>> THEN ""
  ELSE LET tok == Head(p)
           v == Lower(tok.var)
           s == Lower(tok.scope)
           piece ==
             CASE tok.kind = "lit" -> tok.text
               [] tok.kind = "var" /\ v \in DOMAIN vconfig -> vconfig[v]
               [] tok.kind = "scope" /\ s \in DOMAIN sconfig
                    /\ v \in DOMAIN sconfig[s] -> sconfig[s][v]
               [] OTHER -> MarkerText(tok)
       IN piece \o Substitute(Tail(p), vconfig, sconfig)

\* The combinations of accepted instances, one instance per scope: the
\* Cartesian product of the scopes' instance lists, each list in its order.
RECURSIVE ScopeConfigs(_, _)
ScopeConfigs(order, sbindings) ==
  IF order = <<>> THEN << EmptyMap >>
  ELSE LET s == Head(order)
           rest == ScopeConfigs(Tail(order), sbindings)
           WithInstance(b) == [k \in DOMAIN rest |-> (s :> b) @@ rest[k]]
           Walk[i \in 0..Len(sbindings[s])] ==
             IF i = 0 THEN <<>>
             ELSE Walk[i - 1] \o WithInstance(sbindings[s][i])
       IN Walk[Len(sbindings[s])]

\* Interpolator.Interpolate(): the output strings, in order.
Interpolate(p, vbindings, sbindings) ==
  LET configs == ScopeConfigs(ScopeOrder(DOMAIN sbindings), sbindings)
  IN [k \in DOMAIN configs |-> Substitute(p, vbindings, configs[k])]

(***************************************************************************)
(* InterpolateKbAttributes, lines 77-128.                                  *)
(***************************************************************************)
\* Lines 84-87: the missing set after the lookup of one scalar.
MissingAfterVar(missing, attr_name, value) ==
  IF ~Truthy(value) THEN missing \cup {attr_name} ELSE missing

\* Lines 85-89: the scalar bindings after the lookup of one scalar.
BindingsAfterVar(bindings, attr_name, value) ==
  IF ~Truthy(value) THEN bindings ELSE BindVar(bindings, attr_name, value)

\* Lines 102-109: the bindings dict built from one struct of the group.
StructBindings(kb_struct, scope_vars) ==
  [var_id \in { v \in scope_vars : Truthy(GetAttr(kb_struct, Lower(v))) } |->
     GetAttr(kb_struct, Lower(var_id))]

\* Variant of StructAccepted: a struct with some requested field is bound.
StructAcceptedPartial(bindings, scope_vars) ==
  Cardinality(DOMAIN bindings) > 0 \/ Cardinality(scope_vars) = 0

\* Line 111: whether the struct is bound.
StructAccepted(bindings, scope_vars) ==
  Cardinality(DOMAIN bindings) = Cardinality(scope_vars)

\* Variant of BindStructs: the structs are visited last to first.
RECURSIVE BindStructsReversed(_, _, _, _)
BindStructsReversed(sbindings, scope_id, kb_structs, scope_vars) ==
  IF kb_structs = <<>> THEN sbindings
  ELSE LET last == kb_structs[Len(kb_structs)]
           bindings == StructBindings(last, scope_vars)
           next == IF StructAccepted(bindings, scope_vars)
                     THEN BindScope(sbindings, scope_id, bindings)
                     ELSE sbindings
       IN BindStructsReversed(next, scope_id,
                              SubSeq(kb_structs, 1, Len(kb_structs) - 1),
                              scope_vars)

\* Lines 101-113: the loop over the structs of the group, in group order.
RECURSIVE BindStructs(_, _, _, _)
BindStructs(sbindings, scope_id, kb_structs, scope_vars) ==
  IF kb_structs = <<>> THEN sbindings
  ELSE LET bindings == StructBindings(Head(kb_structs), scope_vars)
           next == IF StructAccepted(bindings, scope_vars)
                     THEN BindScope(sbindings, scope_id, bindings)
                     ELSE sbindings
       IN BindStructs(next, scope_id, Tail(kb_structs), scope_vars)

\* Lines 94-113: the scope bindings after one scope has been processed.
BindingsAfterScope(sbindings, scope_id, kb, p) ==
  LET kb_structs == GetGroup(kb, Lower(scope_id))
  IN IF ~TruthyGroup(kb_structs) THEN sbindings
     ELSE BindStructs(sbindings, scope_id, kb_structs.items,
                      ScanScopeVars(p, scope_id))

\* Lines 95-97, 99, 113, 115-116: the missing set after one scope; `before`
\* and `after` are the scope bindings around the loop of line 101.
MissingAfterScope(missing, before, after, scope_id, kb) ==
  LET kb_structs == GetGroup(kb, Lower(scope_id))
      bound == after # before
  IN IF ~TruthyGroup(kb_structs) \/ ~bound
       THEN missing \cup {Lower(scope_id)} ELSE missing

\* Variant of LoopsFinished: the loops stop at the first miss.
LoopsFinishedFailFast(vars_left, scopes_left, missing) ==
  missing # {} \/ (vars_left = {} /\ scopes_left = {})

\* Line 118 is reached when both loops (lines 81, 91) have finished.
LoopsFinished(vars_left, scopes_left, missing) ==
  vars_left = {} /\ scopes_left = {}

\* Variant of JoinedNames: the message names one missing attribute only.
JoinedNamesFirstOnly(missing) ==
  IF missing = {} THEN { <<>> } ELSE { <<n>> : n \in missing }

\* Line 120: ", ".join(missing_attr_names) lists the set in its iteration
\* order, which is any order.
JoinedNames(missing) == Orderings(missing)

\* Variant of Decision: the lenient branch logs and falls through to the
\* expansion (no return at line 125).
DecisionNoReturn(missing, ignore) ==
  IF missing # {} /\ ~ignore THEN "raise" ELSE "expand"

\* Lines 118-128: what the generator does once resolution is over.
\*   "raise": line 122;  "log": lines 124-125;  "expand": line 127.
Decision(missing, ignore) ==
  IF missing # {} THEN (IF ~ignore THEN "raise" ELSE "log") ELSE "expand"

\* Lines 125, 127: the strings the generator will yield.
ResultsToYield(decision, p, vbindings, sbindings) ==
  IF decision = "expand" THEN Interpolate(p, vbindings, sbindings) ELSE <<>>

\* Variant of Extend: each yielded string is put at the front.
ExtendAtFront(list, result) == <<result>> \o list

\* Lines 52-53: list.extend appends each yielded string.
Extend(list, result) == Append(list, result)

NotReturned == [ok |-> FALSE, value |-> <<>>]

RunRecord(raised) ==
  [pattern |-> pattern, missing |-> missing_attr_names,
   var_bindings |-> var_bindings, scope_bindings |-> scope_bindings,
   outputs |-> yielded, raised |-> raised]

\* No interpolation call is made.
InterpIdle ==
  /\ input_list = <<>>
  /\ knowledge_base = [scalars |-> EmptyMap, groups |-> EmptyMap]
  /\ ignore_errors = FALSE
  /\ pc = "idle"
  /\ idx = 1
  /\ interpolated_list = <<>>
  /\ returned = NotReturned
  /\ pattern = <<>>
  /\ todoVars = {}
  /\ todoScopes = {}
  /\ missing_attr_names = {}
  /\ var_bindings = EmptyMap
  /\ scope_bindings = EmptyMap
  /\ pending = <<>>
  /\ yielded = <<>>
  /\ errors = <<>>
  /\ logged = <<>>
  /\ runs = <<>>

\* Lines 49-50: the call with its arguments.
InitCall(lists, kbs) ==
  /\ input_list \in lists
  /\ knowledge_base \in kbs
  /\ ignore_errors \in BOOLEAN
  /\ pc = "list_loop"
  /\ idx = 1
  /\ interpolated_list = <<>>
  /\ returned = NotReturned
  /\ pattern = <<>>
  /\ todoVars = {}
  /\ todoScopes = {}
  /\ missing_attr_names = {}
  /\ var_bindings = EmptyMap
  /\ scope_bindings = EmptyMap
  /\ pending = <<>>
  /\ yielded = <<>>
  /\ errors = <<>>
  /\ logged = <<>>
  /\ runs = <<>>

\* Lines 51-53 and 77-79: the list call starts the generator of `element`.
ListCall ==
  /\ pc = "list_loop"
  /\ idx <= Len(input_list)
  /\ pattern' = input_list[idx]
  /\ missing_attr_names' = {}
  /\ todoVars' = ScanVars(input_list[idx])
  /\ todoScopes' = ScanScopes(input_list[idx])
  /\ var_bindings' = EmptyMap
  /\ scope_bindings' = [s \in ScanScopes(input_list[idx]) |-> <<>>]
  /\ pending' = <<>>
  /\ yielded' = <<>>
  /\ pc' = "resolve"
  /\ UNCHANGED <<input_list, knowledge_base, ignore_errors, idx,
                 interpolated_list, returned, errors, logged, runs>>
  /\ UNCHANGED <<wvars, evars>>

\* Lines 81-89: one iteration of the loop over interpolator.Vars().
VarStep ==
  /\ pc = "resolve"
  /\ ~LoopsFinished(todoVars, todoScopes, missing_attr_names)
  /\ \E vid \in todoVars :
       LET attr_name == Lower(vid)
           value == GetAttr(knowledge_base.scalars, attr_name)
       IN /\ missing_attr_names' =
               MissingAfterVar(missing_attr_names, attr_name, value)
          /\ var_bindings' = BindingsAfterVar(var_bindings, attr_name, value)
          /\ todoVars' = todoVars \ {vid}
  /\ UNCHANGED <<input_list, knowledge_base, ignore_errors, pc, idx,
                 interpolated_list, returned, pattern, todoScopes,
                 scope_bindings, pending, yielded, errors, logged, runs>>
  /\ UNCHANGED <<wvars, evars>>

\* Lines 91-116: one iteration of the loop over interpolator.Scopes().
ScopeStep ==
  /\ pc = "resolve"
  /\ ~LoopsFinished(todoVars, todoScopes, missing_attr_names)
  /\ todoVars = {}
  /\ \E scope_id \in todoScopes :
       LET after == BindingsAfterScope(scope_bindings, scope_id,
                                       knowledge_base, pattern)
       IN /\ scope_bindings' = after
          /\ missing_attr_names' =
               MissingAfterScope(missing_attr_names, scope_bindings, after,
                                 scope_id, knowledge_base)
          /\ todoScopes' = todoScopes \ {scope_id}
  /\ UNCHANGED <<input_list, knowledge_base, ignore_errors, pc, idx,
                 interpolated_list, returned, pattern, todoVars,
                 var_bindings, pending, yielded, errors, logged, runs>>
  /\ UNCHANGED <<wvars, evars>>

\* Lines 118-127: raise, or log and return, or start the expansion.
Decide ==
  /\ pc = "resolve"
  /\ LoopsFinished(todoVars, todoScopes, missing_attr_names)
  /\ LET decision == Decision(missing_attr_names, ignore_errors)
     IN /\ \E names \in JoinedNames(missing_attr_names) :
             /\ errors' = IF decision = "raise"
                            THEN Append(errors, names) ELSE errors
             /\ logged' = IF decision = "log"
                            THEN Append(logged, names) ELSE logged
        /\ pending' = ResultsToYield(decision, pattern, var_bindings,
                                     scope_bindings)
        /\ pc' = IF decision = "raise" THEN "raised" ELSE "yield"
        /\ runs' = IF decision = "raise"
                     THEN Append(runs, RunRecord(TRUE)) ELSE runs
  /\ UNCHANGED <<input_list, knowledge_base, ignore_errors, idx,
                 interpolated_list, returned, pattern, todoVars, todoScopes,
                 missing_attr_names, var_bindings, scope_bindings, yielded>>
  /\ UNCHANGED <<wvars, evars>>

\* Line 128 with lines 52-53: one string is yielded and appended.
Yield ==
  /\ pc = "yield"
  /\ pending # <<>>
  /\ yielded' = Append(yielded, Head(pending))
  /\ interpolated_list' = Extend(interpolated_list, Head(pending))
  /\ pending' = Tail(pending)
  /\ UNCHANGED <<input_list, knowledge_base, ignore_errors, pc, idx,
                 returned, pattern, todoVars, todoScopes, missing_attr_names,
                 var_bindings, scope_bindings, errors, logged, runs>>
  /\ UNCHANGED <<wvars, evars>>

\* The generator is exhausted (line 125 or the end of line 127): the for
\* loop of line 51 moves to the next element.
GenReturn ==
  /\ pc = "yield"
  /\ pending = <<>>
  /\ runs' = Append(runs, RunRecord(FALSE))
  /\ idx' = idx + 1
  /\ pc' = "list_loop"
  /\ UNCHANGED <<input_list, knowledge_base, ignore_errors,
                 interpolated_list, returned, pattern, todoVars, todoScopes,
                 missing_attr_names, var_bindings, scope_bindings, pending,
                 yielded, errors, logged>>
  /\ UNCHANGED <<wvars, evars>>

\* Line 54: return interpolated_list.
ListReturn ==
  /\ pc = "list_loop"
  /\ idx > Len(input_list)
  /\ returned' = [ok |-> TRUE, value |-> interpolated_list]
  /\ pc' = "returned"
  /\ UNCHANGED <<input_list, knowledge_base, ignore_errors, idx,
                 interpolated_list, pattern, todoVars, todoScopes,
                 missing_attr_names, var_bindings, scope_bindings, pending,
                 yielded, errors, logged, runs>>
  /\ UNCHANGED <<wvars, evars>>

InterpNext ==
  \/ ListCall
  \/ VarStep
  \/ ScopeStep
  \/ Decide
  \/ Yield
  \/ GenReturn
  \/ ListReturn

(***************************************************************************)
(* ExpandWindowsEnvironmentVariables, lines 193-220.  Strings are          *)
(* sequences of characters.                                                *)
(***************************************************************************)
Alphabet == {"%", "a", "A"}

\* str.lower() on one character and on a string.
LowerChar(c) == IF c = "A" THEN "a" ELSE c
LowerStr(str) == [i \in DOMAIN str |-> LowerChar(str[i])]

\* Attribute values: None, a string, or a value that is not a string.
NoneValue == [kind |-> "none", chars |-> <<>>]
StrValue(chars) == [kind |-> "str", chars |-> chars]
ListValue == [kind |-> "list", chars |-> <<>>]

\* getattr(knowledge_base, "environ_%s" % name, None).
GetEnviron(env, name) == IF name \in DOMAIN env THEN env[name] ELSE NoneValue

\* The regular expression of line 204, %([^%]+?)%, matches s[i..j].
RegexMatches(str, i, j) ==
  /\ i \in DOMAIN str /\ j \in DOMAIN str
  /\ j > i + 1
  /\ str[i] = "%" /\ str[j] = "%"
  /\ \A k \in (i + 1)..(j - 1) : str[k] # "%"

\* finditer: the leftmost match that starts at or after `from`.
NextMatch(str, from) ==
  LET starts == { i \in from..Len(str) :
                    \E j \in DOMAIN str : RegexMatches(str, i, j) }
  IN IF starts = {} THEN [found |-> FALSE, start |-> 0, end |-> 0]
     ELSE LET i == CHOOSE x \in starts : \A y \in starts : x <= y
              j == CHOOSE y \in DOMAIN str : RegexMatches(str, i, y)
          IN [found |-> TRUE, start |-> i, end |-> j]

\* Variant of Replacement: a marker that cannot be expanded is written back
\* with its name lower-cased.
ReplacementLowered(env, name) ==
  LET kb_value == GetEnviron(env, LowerStr(name))
  IN IF kb_value.kind = "str" /\ kb_value.chars # <<>>
       THEN kb_value.chars
       ELSE <<"%">> \o LowerStr(name) \o <<"%">>

\* Lines 211-217: what is appended for the marker %name%.
Replacement(env, name) ==
  LET kb_value == GetEnviron(env, LowerStr(name))
  IN IF kb_value.kind = "str" /\ kb_value.chars # <<>>
       THEN kb_value.chars
       ELSE <<"%">> \o name \o <<"%">>

\* Line 220: "".join(components).
RECURSIVE Join(_)
Join(parts) == IF parts = <<>> THEN <<>> ELSE Head(parts) \o Join(Tail(parts))

Strings == UNION { [1..n -> Alphabet] : n \in 0..MaxStrLen }

Environs ==
  { (<<"a">> :> va) @@ (<<"a", "a">> :> vaa) :
      va \in { NoneValue, StrValue(<<>>), ListValue, StrValue(<<"A">>),
               StrValue(<<"%", "a", "%">>) },
      vaa \in { NoneValue, StrValue(<<"a">>) } }

EnvIdle ==
  /\ data_string = <<>>
  /\ environ = EmptyMap
  /\ epc = "idle"
  /\ components = <<>>
  /\ offset = 1
  /\ expanded = <<>>

\* Lines 204-206: the call with its arguments.
EnvCall ==
  /\ data_string \in Strings
  /\ environ \in Environs
  /\ epc = "loop"
  /\ components = <<>>
  /\ offset = 1
  /\ expanded = <<>>

\* Lines 207-218: one iteration of the loop over the matches.
EnvMatch ==
  /\ epc = "loop"
  /\ LET match == NextMatch(data_string, offset)
         name == SubSeq(data_string, match.start + 1, match.end - 1)
     IN /\ match.found
        /\ components' =
             components \o << SubSeq(data_string, offset, match.start - 1),
                              Replacement(environ, name) >>
        /\ offset' = match.end + 1
  /\ UNCHANGED <<data_string, environ, epc, expanded>>
  /\ UNCHANGED <<ivars, evars>>

\* Lines 219-220: the final chunk is appended and the string returned.
EnvReturn ==
  /\ epc = "loop"
  /\ ~NextMatch(data_string, offset).found
  /\ components' =
       Append(components, SubSeq(data_string, offset, Len(data_string)))
  /\ expanded' = Join(components')
  /\ epc' = "done"
  /\ UNCHANGED <<data_string, environ, offset>>
  /\ UNCHANGED <<ivars, evars>>

EnvNext ==
  \/ EnvMatch
  \/ EnvReturn

(***************************************************************************)
(* InMemoryDBEventMixin, mem_events.py lines 13-21.  utils.Synchronized    *)
(* runs the method with the store's lock held.                             *)
(***************************************************************************)
Threads == 1..NumThreads
Times == 0..MaxTime

NoEvent == [id |-> 0, timestamp |-> 0]

\* Variant of LockFree: the lock is never waited for.
LockFreeAlways(holder) == TRUE

\* utils.Synchronized: the lock can be taken when no thread holds it.
LockFree(holder) == holder = 0

\* rdfvalue.RDFDatetime.Now(): the wall clock, which may be set back.
Now == Times

\* Variant of AppendEvent: the new event replaces the last one.
AppendEventOverLast(log, e) ==
  IF log = <<>> THEN <<e>> ELSE [log EXCEPT ![Len(log)] = e]

\* Line 21: self.events.append(event).
AppendEvent(log, e) == Append(log, e)

\* Variant of SortedEvents: the list is returned as it is.
SortedEventsUnsorted(log) == log

\* Line 15: sorted(self.events, key=timestamp), a stable sort into a new list.
RECURSIVE SortedEvents(_)
SortedEvents(log) ==
  IF log = <<>> THEN <<>>
  ELSE LET front == SortedEvents(SubSeq(log, 1, Len(log) - 1))
           e == log[Len(log)]
           n == Cardinality({ k \in DOMAIN front :
                                front[k].timestamp <= e.timestamp })
       IN SubSeq(front, 1, n) \o <<e>> \o SubSeq(front, n + 1, Len(front))

EventsIdle ==
  /\ events = <<>>
  /\ lock = 0
  /\ tpc = <<>>
  /\ event = <<>>
  /\ snapshot = <<>>
  /\ logSeen = <<>>
  /\ calls = 0
  /\ writesDone = 0

EventsStart ==
  /\ events = <<>>
  /\ lock = 0
  /\ tpc = [t \in Threads |-> "idle"]
  /\ event = [t \in Threads |-> NoEvent]
  /\ snapshot = [t \in Threads |-> <<>>]
  /\ logSeen = [t \in Threads |-> <<>>]
  /\ calls = 0
  /\ writesDone = 0

\* Line 18: the thread calls WriteAuditEvent with an event of its own.
WriteCall(t) ==
  /\ tpc[t] = "idle"
  /\ calls < MaxCalls
  /\ calls' = calls + 1
  /\ event' = [event EXCEPT ![t] = [id |-> calls + 1, timestamp |-> 0]]
  /\ tpc' = [tpc EXCEPT ![t] = "write_wait"]
  /\ UNCHANGED <<events, lock, snapshot, logSeen, writesDone>>
  /\ UNCHANGED <<ivars, wvars>>

\* Line 17: Synchronized takes the lock, waiting until it is free.
WriteAcquire(t) ==
  /\ tpc[t] = "write_wait"
  /\ LockFree(lock)
  /\ lock' = t
  /\ tpc' = [tpc EXCEPT ![t] = "write_stamp"]
  /\ UNCHANGED <<events, event, snapshot, logSeen, calls, writesDone>>
  /\ UNCHANGED <<ivars, wvars>>

\* Lines 19-20: the event is copied and stamped with the current time.
WriteStamp(t) ==
  /\ tpc[t] = "write_stamp"
  /\ \E now \in Now : event' = [event EXCEPT ![t].timestamp = now]
  /\ tpc' = [tpc EXCEPT ![t] = "write_append"]
  /\ UNCHANGED <<events, lock, snapshot, logSeen, calls, writesDone>>
  /\ UNCHANGED <<ivars, wvars>>

\* Line 21: the event is appended.
WriteAppend(t) ==
  /\ tpc[t] = "write_append"
  /\ events' = AppendEvent(events, event[t])
  /\ tpc' = [tpc EXCEPT ![t] = "write_exit"]
  /\ UNCHANGED <<lock, event, snapshot, logSeen, calls, writesDone>>
  /\ UNCHANGED <<ivars, wvars>>

\* WriteAuditEvent returns and the lock is released.
WriteReturn(t) ==
  /\ tpc[t] = "write_exit"
  /\ lock' = 0
  /\ writesDone' = writesDone + 1
  /\ tpc' = [tpc EXCEPT ![t] = "idle"]
  /\ UNCHANGED <<events, event, snapshot, logSeen, calls>>
  /\ UNCHANGED <<ivars, wvars>>

\* Line 14: the thread calls ReadAllAuditEvents.
ReadCall(t) ==
  /\ tpc[t] = "idle"
  /\ calls < MaxCalls
  /\ calls' = calls + 1
  /\ tpc' = [tpc EXCEPT ![t] = "read_wait"]
  /\ UNCHANGED <<events, lock, event, snapshot, logSeen, writesDone>>
  /\ UNCHANGED <<ivars, wvars>>

\* Line 13: Synchronized takes the lock, waiting until it is free.
ReadAcquire(t) ==
  /\ tpc[t] = "read_wait"
  /\ LockFree(lock)
  /\ lock' = t
  /\ tpc' = [tpc EXCEPT ![t] = "read_sort"]
  /\ UNCHANGED <<events, event, snapshot, logSeen, calls, writesDone>>
  /\ UNCHANGED <<ivars, wvars>>

\* Line 15: the sorted copy of the log is built.
ReadSort(t) ==
  /\ tpc[t] = "read_sort"
  /\ snapshot' = [snapshot EXCEPT ![t] = SortedEvents(events)]
  /\ logSeen' = [logSeen EXCEPT ![t] = events]
  /\ tpc' = [tpc EXCEPT ![t] = "read_exit"]
  /\ UNCHANGED <<events, lock, event, calls, writesDone>>
  /\ UNCHANGED <<ivars, wvars>>

\* ReadAllAuditEvents returns and the lock is released.
ReadReturn(t) ==
  /\ tpc[t] = "read_exit"
  /\ lock' = 0
  /\ tpc' = [tpc EXCEPT ![t] = "idle"]
  /\ UNCHANGED <<events, event, snapshot, logSeen, calls, writesDone>>
  /\ UNCHANGED <<ivars, wvars>>

EventsNext ==
  \E t \in Threads :
    \/ WriteCall(t)
    \/ WriteAcquire(t)
    \/ WriteStamp(t)
    \/ WriteAppend(t)
    \/ WriteReturn(t)
    \/ ReadCall(t)
    \/ ReadAcquire(t)
    \/ ReadSort(t)
    \/ ReadReturn(t)
vars == <<ivars, wvars, evars>>

\* One pattern per call: InterpolateKbAttributes consumed to exhaustion.
Init ==
  /\ InitCall({ <<p>> : p \in Patterns }, KnowledgeBases)
  /\ EnvIdle
  /\ EventsIdle
Spec == Init /\ [][InterpNext]_vars

\* InterpolateListKbAttributes on lists of patterns.
InitList ==
  /\ InitCall(UNION { [1..n -> ListPatterns] : n \in 1..MaxList },
              ListKnowledgeBases)
  /\ EnvIdle
  /\ EventsIdle
SpecList == InitList /\ [][InterpNext]_vars

\* ExpandWindowsEnvironmentVariables on every string and knowledge base.
InitEnv ==
  /\ InterpIdle
  /\ EnvCall
  /\ EventsIdle
SpecEnv == InitEnv /\ [][EnvNext]_vars

\* Threads calling WriteAuditEvent and ReadAllAuditEvents on one store.
InitEvents ==
  /\ InterpIdle
  /\ EnvIdle
  /\ EventsStart
SpecEvents == InitEvents /\ [][EventsNext]_vars

(***************************************************************************)
(* What the knowledge base can satisfy, stated on the pattern and the      *)
(* knowledge base alone.                                                   *)
(***************************************************************************)
Range(f) == { f[i] : i \in DOMAIN f }

VarTokens(p) == { j \in DOMAIN p : p[j].kind = "var" }
ScopeTokens(p, s) ==
  { j \in DOMAIN p : p[j].kind = "scope" /\ Lower(p[j].scope) = s }
ScopeNames(p) ==
  { Lower(p[j].scope) : j \in { k \in DOMAIN p : p[k].kind = "scope" } }

\* The struct has a non-empty value for every field the pattern requests
\* from scope s.
SatisfiesAll(struct, p, s) ==
  \A j \in ScopeTokens(p, s) : Truthy(GetAttr(struct, Lower(p[j].var)))

GroupItems(kb, s) == IF s \in DOMAIN kb.groups THEN kb.groups[s] ELSE <<>>

\* The structs of group s that satisfy all requested fields, in group order.
AcceptedStructs(p, kb, s) ==
  SelectSeq(GroupItems(kb, s), LAMBDA r : SatisfiesAll(r, p, s))

UnsatisfiedVars(p, kb) ==
  { Lower(p[j].var) :
      j \in { k \in VarTokens(p) :
                ~Truthy(GetAttr(kb.scalars, Lower(p[k].var))) } }

UnsatisfiedScopes(p, kb) ==
  { s \in ScopeNames(p) : AcceptedStructs(p, kb, s) = <<>> }

Unsatisfied(p, kb) == UnsatisfiedVars(p, kb) \cup UnsatisfiedScopes(p, kb)

\* The pattern with the knowledge base's scalars and the fields of one
\* struct written in place of the markers.
RECURSIVE Render(_, _, _)
Render(p, kb, struct) ==
  IF p = <<>> THEN ""
  ELSE LET tok == Head(p)
           piece == CASE tok.kind = "lit" -> tok.text
                      [] tok.kind = "var" -> kb.scalars[Lower(tok.var)]
                      [] OTHER -> struct[Lower(tok.var)]
       IN piece \o Render(Tail(p), kb, struct)

\* The expansion of a pattern that references at most one scope.
Expansion(p, kb) ==
  IF Unsatisfied(p, kb) # {} THEN <<>>
  ELSE IF ScopeNames(p) = {} THEN << Render(p, kb, EmptyMap) >>
  ELSE LET s == CHOOSE x \in ScopeNames(p) : TRUE
           acc == AcceptedStructs(p, kb, s)
       IN [k \in DOMAIN acc |-> Render(p, kb, acc[k])]

RECURSIVE Concat(_)
Concat(seqs) == IF seqs = <<>> THEN <<>> ELSE Head(seqs) \o Concat(Tail(seqs))

LowerPattern(p) ==
  [i \in DOMAIN p |-> [p[i] EXCEPT !.var = Lower(@), !.scope = Lower(@)]]

InRun == pc \in {"resolve", "yield", "raised"}

(***************************************************************************)
(* C1. Strict mode (ignore_errors = False): when some scalar or scope of   *)
(* the pattern cannot be satisfied the generator never yields; the error   *)
(* is raised once, only after every scalar and scope has been examined,    *)
(* its message names every unsatisfied scalar and scope, and nothing was   *)
(* yielded before it.  No error is raised when everything is satisfied.    *)
(***************************************************************************)
C1_StrictAggregatedError ==
  ~ignore_errors =>
    /\ Len(errors) <= 1
    /\ (pc = "raised") = (Len(errors) = 1)
    /\ pc = "raised" =>
         /\ todoVars = {} /\ todoScopes = {}
         /\ Unsatisfied(pattern, knowledge_base) # {}
         /\ Unsatisfied(pattern, knowledge_base) \subseteq Range(errors[1])
         /\ yielded = <<>> /\ interpolated_list = <<>>
    /\ (InRun /\ Unsatisfied(pattern, knowledge_base) # {}) =>
         /\ pc # "yield"
         /\ yielded = <<>>
    /\ (pc = "yield") => Unsatisfied(pattern, knowledge_base) = {}

C1_Witness ==
  /\ ~ignore_errors
  /\ pc = "raised"
  /\ UnsatisfiedVars(pattern, knowledge_base) # {}
  /\ UnsatisfiedScopes(pattern, knowledge_base) # {}
  /\ Len(errors[1]) >= 3

(***************************************************************************)
(* C2. Lenient mode (ignore_errors = True): a pattern with a non-empty     *)
(* missing set raises nothing and yields nothing, also when some of its    *)
(* scalars were bound or some of its scopes had accepted instances.        *)
(***************************************************************************)
C2_LenientAllOrNothing ==
  ignore_errors =>
    /\ errors = <<>>
    /\ pc # "raised"
    /\ (InRun /\ Unsatisfied(pattern, knowledge_base) # {}) =>
         /\ yielded = <<>>
         /\ pending = <<>>
    /\ \A k \in DOMAIN runs :
         Unsatisfied(runs[k].pattern, knowledge_base) # {} =>
           runs[k].outputs = <<>> /\ ~runs[k].raised

C2_Witness ==
  /\ ignore_errors
  /\ Len(runs) = 1
  /\ runs[1].missing # {}
  /\ runs[1].outputs = <<>>
  /\ DOMAIN runs[1].var_bindings # {}
  /\ \E s \in DOMAIN runs[1].scope_bindings :
       runs[1].scope_bindings[s] # <<>>
  /\ Len(logged) = 1

(***************************************************************************)
(* C3. For every scope the generator has processed: the bound instances    *)
(* are exactly the structs of the group that have a non-empty value for    *)
(* every requested field (in group order, with those values), and the      *)
(* scope name is in the missing set exactly when the group is absent or    *)
(* empty or no struct satisfies all requested fields.                      *)
(***************************************************************************)
C3_ScopeBoundIffAllFields ==
  InRun =>
    \A s \in ScanScopes(pattern) \ todoScopes :
      LET acc == AcceptedStructs(pattern, knowledge_base, s)
          fields == ScanScopeVars(pattern, s)
      IN /\ Len(scope_bindings[s]) = Len(acc)
         /\ \A k \in DOMAIN acc :
              /\ DOMAIN scope_bindings[s][k] = fields
              /\ \A f \in fields : scope_bindings[s][k][f] = acc[k][f]
         /\ (s \in missing_attr_names) =
              (\/ s \notin DOMAIN knowledge_base.groups
               \/ knowledge_base.groups[s] = <<>>
               \/ \A i \in DOMAIN knowledge_base.groups[s] :
                    ~SatisfiesAll(knowledge_base.groups[s][i], pattern, s))

\* A struct with only some of the two requested fields sits next to one
\* with both: one instance is bound and the scope is not missing.
C3_Witness ==
  /\ InRun
  /\ todoScopes = {}
  /\ "users" \in ScanScopes(pattern)
  /\ Cardinality(ScanScopeVars(pattern, "users")) = 2
  /\ Len(knowledge_base.groups.users) = 2
  /\ Len(scope_bindings["users"]) = 1
  /\ knowledge_base.groups.users[1].home = None
  /\ "users" \notin missing_attr_names

C5_ListConcatenation ==
  LET failing == { i \in DOMAIN input_list :
                     Unsatisfied(input_list[i], knowledge_base) # {} }
  IN /\ returned.ok =>
          /\ pc = "returned"
          /\ returned.value =
               Concat([i \in DOMAIN input_list |->
                         Expansion(input_list[i], knowledge_base)])
          /\ Len(runs) = Len(input_list)
          /\ \A i \in DOMAIN input_list :
               /\ runs[i].pattern = input_list[i]
               /\ runs[i].outputs = Expansion(input_list[i], knowledge_base)
          /\ ~ignore_errors => failing = {}
     /\ (~ignore_errors /\ failing # {}) => ~returned.ok
     /\ pc = "raised" =>
          /\ ~returned.ok
          /\ ~ignore_errors
          /\ idx \in failing
          /\ \A i \in 1..(idx - 1) : i \notin failing

C5_Witness ==
  /\ returned.ok
  /\ ignore_errors
  /\ Len(input_list) = 2
  /\ Unsatisfied(input_list[1], knowledge_base) # {}
  /\ Len(returned.value) = 1

C5_WitnessRaise ==
  /\ pc = "raised"
  /\ idx = 2
  /\ interpolated_list # <<>>

(***************************************************************************)
(* C6. Placeholder identifiers are matched case-insensitively: two         *)
(* patterns of one call that differ only in the letter case of their       *)
(* placeholders end with the same missing set, the same bindings and the   *)
(* same outputs, and every bound scalar is bound under its lower-cased     *)
(* name to the value of that attribute.                                    *)
(***************************************************************************)
C6_CaseInsensitive ==
  /\ \A i, j \in DOMAIN runs :
       LowerPattern(runs[i].pattern) = LowerPattern(runs[j].pattern) =>
         /\ runs[i].missing = runs[j].missing
         /\ runs[i].var_bindings = runs[j].var_bindings
         /\ runs[i].scope_bindings = runs[j].scope_bindings
         /\ runs[i].outputs = runs[j].outputs
  /\ \A i \in DOMAIN runs :
       /\ runs[i].missing = Unsatisfied(LowerPattern(runs[i].pattern),
                                        knowledge_base)
       /\ DOMAIN runs[i].var_bindings \cup UnsatisfiedVars(runs[i].pattern,
                                                           knowledge_base)
            = { Lower(runs[i].pattern[k].var) : k \in VarTokens(runs[i].pattern) }
       /\ \A n \in DOMAIN runs[i].var_bindings :
            runs[i].var_bindings[n] = knowledge_base.scalars[Lower(n)]
       /\ runs[i].outputs # <<>> =>
            runs[i].outputs = Expansion(LowerPattern(runs[i].pattern),
                                        knowledge_base)

C6_Witness ==
  /\ Len(runs) = 2
  /\ runs[1].pattern = <<Var("OS"), Lit("-"), Var("os")>>
  /\ runs[2].pattern = <<Var("os"), Lit("-"), Var("os")>>
  /\ runs[1].outputs = << "Windows-Windows" >>
  /\ runs[2].outputs = << "Windows-Windows" >>

C6_WitnessScope ==
  /\ Len(runs) = 2
  /\ runs[1].pattern = <<SVar("Users", "HOME")>>
  /\ runs[2].pattern = <<SVar("users", "home")>>
  /\ runs[1].outputs # <<>>

(***************************************************************************)
(* C7. As claimed: the error message of strict mode lists the missing      *)
(* names in ascending order of name.                                       *)
(***************************************************************************)
C7_MessageSorted ==
  pc = "raised" =>
    \A i, j \in DOMAIN errors[1] :
      i < j => Rank[errors[1][i]] < Rank[errors[1][j]]

(***************************************************************************)
(* C7, amended. The error message of strict mode is one message that lists *)
(* every name of the missing set exactly once, in no particular order.     *)
(***************************************************************************)
C7_MessageEachNameOnce ==
  pc = "raised" =>
    /\ Len(errors) = 1
    /\ Range(errors[1]) = missing_attr_names
    /\ Len(errors[1]) = Cardinality(missing_attr_names)

C7_Witness ==
  /\ pc = "raised"
  /\ Len(errors[1]) >= 2
  /\ Rank[errors[1][1]] > Rank[errors[1][2]]

(***************************************************************************)
(* C8. As claimed: the strings yielded for one pattern are all different.  *)
(***************************************************************************)
C8_OutputsUnique ==
  \A i, j \in DOMAIN yielded : i # j => yielded[i] # yielded[j]

\* The thread is inside a method body, between taking and releasing the lock.
InBody(t) ==
  tpc[t] \in {"write_stamp", "write_append", "write_exit", "read_sort",
              "read_exit"}

IsPrefix(a, b) == Len(a) <= Len(b) /\ SubSeq(b, 1, Len(a)) = a

(***************************************************************************)
(* C9. On one store, under every interleaving of WriteAuditEvent and       *)
(* ReadAllAuditEvents calls: at most one call runs its body at a time;     *)
(* the log holds one entry per write that has appended (none lost, none    *)
(* twice) and keeps what a reader saw as a prefix (nothing is removed);    *)
(* a read returns the events written before it, each once, in              *)
(* non-decreasing timestamp order, and leaves the log as it was.           *)
(***************************************************************************)
C9_AuditLogAtomic ==
  /\ \A t, u \in Threads : (InBody(t) /\ InBody(u)) => t = u
  /\ \A t \in Threads : InBody(t) = (lock = t)
  /\ Len(events) =
       writesDone + Cardinality({ t \in Threads : tpc[t] = "write_exit" })
  /\ \A i, j \in DOMAIN events : i # j => events[i].id # events[j].id
  /\ \A t \in Threads :
       /\ IsPrefix(logSeen[t], events)
       /\ Len(snapshot[t]) = Len(logSeen[t])
       /\ Range(snapshot[t]) = Range(logSeen[t])
       /\ \A i, j \in DOMAIN snapshot[t] :
            i < j => snapshot[t][i].timestamp <= snapshot[t][j].timestamp
       /\ tpc[t] = "read_exit" =>
            /\ logSeen[t] = events
            /\ Len(snapshot[t]) = writesDone

\* A read that ran after two writes whose timestamps go down: the snapshot
\* is reordered while the log keeps the order of the appends; another
\* thread is waiting for the lock meanwhile.
C9_Witness ==
  \E t, u \in Threads :
    /\ tpc[t] = "read_exit"
    /\ tpc[u] = "write_wait"
    /\ Len(events) = 2
    /\ events[1].timestamp > events[2].timestamp
    /\ snapshot[t] = << events[2], events[1] >>

\* The marker that starts at position i ends at the next "%", which is not
\* the next character.
NextPercent(str, i) ==
  IF \E j \in (i + 1)..Len(str) : str[j] = "%"
    THEN CHOOSE j \in (i + 1)..Len(str) :
           str[j] = "%" /\ \A k \in (i + 1)..(j - 1) : str[k] # "%"
    ELSE 0

MarkerAt(str, i) == str[i] = "%" /\ NextPercent(str, i) > i + 1

Expandable(env, name) ==
  /\ LowerStr(name) \in DOMAIN env
  /\ env[LowerStr(name)].kind = "str"
  /\ env[LowerStr(name)].chars # <<>>

\* The pass, character by character from position i.
RECURSIVE ExpandFrom(_, _, _)
ExpandFrom(str, env, i) ==
  IF i > Len(str) THEN <<>>
  ELSE IF MarkerAt(str, i)
    THEN LET j == NextPercent(str, i)
             name == SubSeq(str, i + 1, j - 1)
         IN (IF Expandable(env, name) THEN env[LowerStr(name)].chars
             ELSE SubSeq(str, i, j)) \o ExpandFrom(str, env, j + 1)
    ELSE <<str[i]>> \o ExpandFrom(str, env, i + 1)

\* Whether some marker of the pass is expandable.
RECURSIVE SomeExpandable(_, _, _)
SomeExpandable(str, env, i) ==
  IF i > Len(str) THEN FALSE
  ELSE IF MarkerAt(str, i)
    THEN LET j == NextPercent(str, i)
         IN Expandable(env, SubSeq(str, i + 1, j - 1))
              \/ SomeExpandable(str, env, j + 1)
    ELSE SomeExpandable(str, env, i + 1)

(***************************************************************************)
(* C10. ExpandWindowsEnvironmentVariables is one left-to-right pass: every *)
(* %name% marker whose attribute environ_<lower-cased name> is a non-empty *)
(* string is replaced by that value, every other marker stays as written   *)
(* (letter case included), the text outside markers is kept in order, and  *)
(* the values written are not scanned again; a string with no expandable   *)
(* marker is returned unchanged.                                           *)
(***************************************************************************)
C10_SinglePassExpansion ==
  epc = "done" =>
    /\ expanded = ExpandFrom(data_string, environ, 1)
    /\ ~SomeExpandable(data_string, environ, 1) => expanded = data_string

\* "%A%%Aa%" with environ_a = "%a%" and no environ_aa: the first marker is
\* replaced through its lower-cased name, the value (itself a marker) is not
\* expanded again, and the second marker stays as written.
C10_Witness ==
  /\ epc = "done"
  /\ data_string = <<"%", "A", "%", "%", "A", "a", "%">>
  /\ environ[<<"a">>] = StrValue(<<"%", "a", "%">>)
  /\ environ[<<"a", "a">>] = NoneValue
  /\ expanded = <<"%", "a", "%", "%", "A", "a", "%">>

\* "a%A%" with an environ_a that is not a string stays "a%A%".
C10_WitnessKept ==
  /\ epc = "done"
  /\ data_string = <<"a", "%", "A", "%">>
  /\ environ[<<"a">>] = ListValue
  /\ expanded = data_string

====
